---- MODULE Spec2Model ----
(* A model of the gitpy repository of src/main.py: the object codec and      *)
(* store, the staging index, the tree builder, the commit/branch graph and   *)
(* the checkout engine, together with the user's edits of the working        *)
(* directory.                                                                *)
EXTENDS Naturals, Integers, Sequences, FiniteSets, TLC

\* ---------------------------------------------------------------------------
\* Bounds and small input sets
\* ---------------------------------------------------------------------------
\* The user's edits of the working directory (writes and removals).
MaxEdits == 2
\* Commit objects that may be created.
MaxCommits == 2
\* Object files that a damaged repository may lose.
MaxLosses == 1
\* The length of the byte strings handed to deserialize.
MaxBytes == 4

\* Relative paths of the working directory, as the lists of their segments
\* (the index key is the '/'-joined string). A chain a, a/b, a/b/c and a
\* sibling d: every file/directory clash of depth <= 3 can be staged.
Paths == { <<"a">>, <<"a", "b">>, <<"a", "b", "c">>, <<"d">> }
\* File contents (byte strings).
Contents == { <<1>>, <<2>> }
\* What one user works on, as the files written and the bytes written to
\* them: a chain in which each file is also the name of the directory of the
\* next, and two siblings.
Scopes == { { <<"a">>, <<"a", "b">>, <<"a", "b", "c">> } \X Contents,
            { <<"a">>, <<"d">> } \X { <<1>> } }
\* The root of the working directory (self.path).
Root == << >>
Branches == { "main", "feat" }
Messages == { "msg" }
\* The seconds that time.time() may read when a commit is made.
Timestamps == { 1 }
Author == "Gitpy User"

\* An absent value: no ref file, no HEAD file (Python's None).
None == << >>

\* ---------------------------------------------------------------------------
\* Object codec (GitObject, Blob, Tree, Commit)
\* ---------------------------------------------------------------------------
GitObject(obj_type, content) == [type |-> obj_type, content |-> content]

\* The length of a payload, as the header records it.
ContentLen(content) == Len(content)

\* A digest of the header alone, without the content.
hashHeaderOnly(obj) == << "sha1", obj.type, ContentLen(obj.content), << >> >>

\* SHA-1 over header + content, taken to be collision-free: the digest is
\* modelled by the string that is hashed.
hash(obj) == << "sha1", obj.type, ContentLen(obj.content), obj.content >>

\* zlib.compress(header + content)
serialize(obj) == << "zlib", << obj.type, ContentLen(obj.content) >>, obj.content >>

\* zlib.decompress, then the split at the first null byte and of the header
\* at its blank.
deserialize(data) == GitObject(data[2][1], data[3])

\* The bytes that deserialize looks for: the null byte that ends the header,
\* the blank between the type and the length, and a letter for all others.
NullByte == 0
Blank == 32
Letter == 98
Bytes == { NullByte, Blank, Letter }

\* The decompressed byte strings handed to deserialize.
ByteStrings == UNION { [1..n -> Bytes] : n \in 0..MaxBytes }

\* bytes.find: the index, from 0, of the first byte b of s, or -1.
find(s, b) ==
    IF \E i \in 1..Len(s) : s[i] = b
    THEN (CHOOSE i \in 1..Len(s) : s[i] = b /\ \A j \in 1..(i - 1) : s[j] # b) - 1
    ELSE -1

\* The slice s[:stop] of Python, for stop >= -1.
SliceTo(s, stop) == SubSeq(s, 1, IF stop < 0 THEN Len(s) + stop ELSE stop)

\* The slice s[start:] of Python, for start >= 0.
SliceFrom(s, start) == SubSeq(s, start + 1, Len(s))

\* What deserialize makes of a byte string: an object, or a raised error.
Decoded(obj_type, content) == [raised |-> FALSE, type |-> obj_type, content |-> content]
ValueError == [raised |-> TRUE, type |-> << >>, content |-> << >>]

\* GitObject.deserialize, lines 30-34, on the decompressed bytes: find gives
\* -1 when there is no null byte, and the slices are taken all the same;
\* unpacking header.split(b' ') raises unless the header has one blank.
deserialize_bytes(decompressed) ==
    LET null_idx == find(decompressed, NullByte)
        header == SliceTo(decompressed, null_idx)
        content == SliceFrom(decompressed, null_idx + 1)
        blanks == { i \in 1..Len(header) : header[i] = Blank }
    IN IF Cardinality(blanks) # 1 THEN ValueError
       ELSE Decoded(SubSeq(header, 1, (CHOOSE i \in blanks : TRUE) - 1), content)

\* A byte string handed to deserialize, not yet decoded.
Decoding(data) == [data |-> data, done |-> FALSE, obj |-> ValueError]

Blob(content) == GitObject("blob", content)

\* The entries in one canonical order, whatever the order they came in.
serialize_entriesCanonical(entries) ==
    LET S == { entries[i] : i \in 1..Len(entries) }
        sorted == CHOOSE o \in [1..Cardinality(S) -> S] :
                      \A i, j \in 1..Cardinality(S) : o[i] = o[j] => i = j
    IN [i \in 1..Cardinality(S) |-> << << sorted[i][1], sorted[i][2] >>, sorted[i][3] >>]

\* Tree._serialize_entries: "{mode} {name}\0" followed by the raw digest.
serialize_entries(entries) ==
    [i \in 1..Len(entries) |-> << << entries[i][1], entries[i][2] >>, entries[i][3] >>]

Tree(entries) == GitObject("tree", serialize_entries(entries))

\* Tree.from_content: the entry list (mode, name, hash) of a tree payload.
Tree_from_content(data) ==
    [i \in 1..Len(data) |-> << data[i][1][1], data[i][1][2], data[i][2] >>]

\* Commit._serialize_commit: the lines of a commit payload.
serialize_commit(tree_hash, parent_hash, author, committer, message, timestamp) ==
    << << "tree", tree_hash >> >>
    \o [i \in 1..Len(parent_hash) |-> << "parent", parent_hash[i] >>]
    \o << << "author", author, timestamp >>,
          << "committer", committer, timestamp >>,
          << "" >>,
          << "message", message >> >>

Commit(tree_hash, parent_hash, author, message, timestamp) ==
    GitObject("commit",
              serialize_commit(tree_hash, parent_hash, author, author, message, timestamp))

IsLine(line, tag) == line[1] = tag

\* Commit.from_content: the tree and the parents read back from the lines.
Commit_from_content(data) ==
    LET treeLines == SelectSeq(data, LAMBDA l : IsLine(l, "tree"))
        parentLines == SelectSeq(data, LAMBDA l : IsLine(l, "parent"))
    IN [tree_hash |-> IF Len(treeLines) = 0 THEN None
                      ELSE treeLines[Len(treeLines)][2],
        parent_hash |-> [i \in 1..Len(parentLines) |-> parentLines[i][2]]]

\* ---------------------------------------------------------------------------
\* Object store: digest -> stored bytes
\* ---------------------------------------------------------------------------
EmptyStore == [h \in {} |-> None]

HasObject(store, obj_hash) == obj_hash \in DOMAIN store

\* Repository.load_object, where the object file exists.
load_object(store, obj_hash) == deserialize(store[obj_hash])

\* A write of data under the key h.
WriteAt(store, h, data) ==
    [k \in DOMAIN store \cup {h} |-> IF k = h THEN data ELSE store[k]]

\* The object is written to a store emptied of everything else.
store_objectAlone(store, obj) ==
    [store |-> WriteAt(EmptyStore, hash(obj), serialize(obj)), hash |-> hash(obj)]

\* Repository.store_object: the file named by the digest is (re)written.
store_object(store, obj) ==
    [store |-> WriteAt(store, hash(obj), serialize(obj)), hash |-> hash(obj)]

\* ---------------------------------------------------------------------------
\* Ordered dictionaries (Python dict, the JSON index): sequences of
\* <<key, value>> with distinct keys, in insertion order
\* ---------------------------------------------------------------------------
DictKeys(d) == { d[i][1] : i \in 1..Len(d) }

DictHas(d, key) == key \in DictKeys(d)

DictGet(d, key) == d[CHOOSE i \in 1..Len(d) : d[i][1] = key][2]

\* d[key] = value: an existing key keeps its place, a new key goes last.
DictSet(d, key, value) ==
    IF DictHas(d, key)
    THEN [i \in 1..Len(d) |-> IF d[i][1] = key THEN << key, value >> ELSE d[i]]
    ELSE Append(d, << key, value >>)

\* ---------------------------------------------------------------------------
\* Tree builder (Repository.create_tree_from_index)
\* ---------------------------------------------------------------------------
\* The values of the nested dictionaries: a blob digest (str) or a dict.
StrVal(blob_hash) == << "str", blob_hash >>
DictVal(d) == << "dict", d >>
IsStr(v) == v[1] = "str"

\* The outcome of filling a dictionary: the dictionary, or the raised
\* TypeError ('str' object does not support item assignment).
Filled(d) == [raised |-> FALSE, dict |-> d]
TypeError == [raised |-> TRUE, dict |-> << >>]

RECURSIVE InsertNested(_, _, _)
\* Lines 254-258 for one staged path: walk the segments parts[1:-1] from
\* the dictionary current, creating the missing ones, and set the last
\* segment to the blob digest. A segment that holds a digest (a str) cannot
\* be walked into: TypeError.
InsertNested(current, parts, blob_hash) ==
    IF Len(parts) = 1
    THEN Filled(DictSet(current, parts[1], StrVal(blob_hash)))
    ELSE LET part == parts[1]
             sub == IF DictHas(current, part) THEN DictGet(current, part)
                    ELSE DictVal(<< >>)
         IN IF IsStr(sub) THEN TypeError
            ELSE LET inner == InsertNested(sub[2], Tail(parts), blob_hash)
                 IN IF inner.raised THEN TypeError
                    ELSE Filled(DictSet(current, part, DictVal(inner.dict)))

RECURSIVE SplitIndex(_, _, _, _)
\* Lines 245-258: the loop over index.items() that fills files and dirs.
SplitIndex(index, i, files, dirs) ==
    IF i > Len(index) THEN [raised |-> FALSE, files |-> files, dirs |-> dirs]
    ELSE LET parts == index[i][1]
             blob_hash == index[i][2]
         IN IF Len(parts) = 1
            THEN SplitIndex(index, i + 1, DictSet(files, parts[1], StrVal(blob_hash)), dirs)
            ELSE LET dir_name == parts[1]
                     current == IF DictHas(dirs, dir_name) THEN DictGet(dirs, dir_name)[2]
                                ELSE << >>
                     inner == InsertNested(current, Tail(parts), blob_hash)
                 IN IF inner.raised
                    THEN [raised |-> TRUE, files |-> files, dirs |-> dirs]
                    ELSE SplitIndex(index, i + 1, files,
                                    DictSet(dirs, dir_name, DictVal(inner.dict)))

RECURSIVE MergeDirs(_, _, _)
\* Lines 270-272: root_entries = {**files}, then every directory is set.
MergeDirs(root_entries, dirs, i) ==
    IF i > Len(dirs) THEN root_entries
    ELSE MergeDirs(DictSet(root_entries, dirs[i][1], dirs[i][2]), dirs, i + 1)

RECURSIVE create_tree_recursive(_, _)
RECURSIVE TreeEntries(_, _, _, _)
\* Lines 262-267: the loop that adds one entry per name; a subtree is built
\* and stored by the recursive call before its entry is added.
TreeEntries(store, entries_dict, i, entries) ==
    IF i > Len(entries_dict) THEN [store |-> store, entries |-> entries]
    ELSE LET name == entries_dict[i][1]
             value == entries_dict[i][2]
         IN IF IsStr(value)
            THEN TreeEntries(store, entries_dict, i + 1,
                             Append(entries, << "100644", name, value[2] >>))
            ELSE LET sub == create_tree_recursive(store, value[2])
                 IN TreeEntries(sub.store, entries_dict, i + 1,
                                Append(entries, << "40000", name, sub.hash >>))

\* Lines 260-268.
create_tree_recursive(store, entries_dict) ==
    LET built == TreeEntries(store, entries_dict, 1, << >>)
    IN store_object(built.store, Tree(built.entries))

\* Repository.create_tree_from_index: the store after the build, the root
\* digest, and whether the build raised.
create_tree_from_index(store, index) ==
    IF Len(index) = 0
    THEN LET r == store_object(store, Tree(<< >>))
         IN [store |-> r.store, hash |-> r.hash, raised |-> FALSE]
    ELSE LET split == SplitIndex(index, 1, << >>, << >>)
         IN IF split.raised
            THEN [store |-> store, hash |-> None, raised |-> TRUE]
            ELSE LET r == create_tree_recursive(store,
                              MergeDirs(split.files, split.dirs, 1))
                 IN [store |-> r.store, hash |-> r.hash, raised |-> FALSE]

\* ---------------------------------------------------------------------------
\* Flatten (Repository.get_files_from_tree_recursive)
\* ---------------------------------------------------------------------------
StartsWith100(mode) == mode = "100644"
StartsWith400(mode) == mode = "40000"

RECURSIVE get_files_from_tree_recursive(_, _, _)
\* The set of the file paths below tree_hash, each with the prefix put in
\* front; a tree that cannot be loaded contributes nothing.
get_files_from_tree_recursive(store, tree_hash, prefix) ==
    IF ~HasObject(store, tree_hash) THEN {}
    ELSE LET entries == Tree_from_content(load_object(store, tree_hash).content)
         IN UNION { IF StartsWith100(entries[i][1])
                    THEN { Append(prefix, entries[i][2]) }
                    ELSE IF StartsWith400(entries[i][1])
                    THEN get_files_from_tree_recursive(store, entries[i][3],
                                                       Append(prefix, entries[i][2]))
                    ELSE {} : i \in 1..Len(entries) }

\* ---------------------------------------------------------------------------
\* Working directory: path -> node (absent, a file with its bytes, a
\* directory)
\* ---------------------------------------------------------------------------
Absent == [kind |-> "absent", data |-> << >>]
Dir == [kind |-> "dir", data |-> << >>]
File(content) == [kind |-> "file", data |-> content]

IsPrefix(p, q) == Len(p) <= Len(q) /\ SubSeq(q, 1, Len(p)) = p
IsProperPrefix(p, q) == Len(p) < Len(q) /\ IsPrefix(p, q)

Ancestors(p) == { q \in Paths : IsProperPrefix(q, p) }
Descendants(p) == { q \in Paths : IsProperPrefix(p, q) }

\* Path.exists(), Path.is_file(), Path.is_dir(): false as soon as an
\* ancestor is no directory.
exists(dir, p) ==
    \/ p = Root
    \/ /\ p \in Paths
       /\ dir[p].kind # "absent"
       /\ \A q \in Ancestors(p) : dir[q].kind = "dir"
is_file(dir, p) == p # Root /\ exists(dir, p) /\ dir[p].kind = "file"
is_dir(dir, p) == exists(dir, p) /\ (p = Root \/ dir[p].kind = "dir")

\* The regular files below p (rglob('*') filtered by is_file).
FilesUnder(dir, p) == { q \in Paths : IsProperPrefix(p, q) /\ is_file(dir, q) }

\* Lines 385-393 for one path: a file is unlinked; a directory loses every
\* file below it and is then removed with rmdir, which fails (and is
\* reported) when a subdirectory is left in it.
clear_path(dir, rel_path) ==
    IF ~exists(dir, rel_path) THEN dir
    ELSE IF is_file(dir, rel_path) THEN [dir EXCEPT ![rel_path] = Absent]
    ELSE LET unlinked == [q \in Paths |->
                             IF q \in FilesUnder(dir, rel_path) THEN Absent ELSE dir[q]]
         IN IF \E q \in Descendants(rel_path) : unlinked[q].kind # "absent"
            THEN unlinked
            ELSE [unlinked EXCEPT ![rel_path] = Absent]

\* The whole working directory is emptied, whatever the paths to clear.
clear_filesAll(dir, files_to_clear) == [q \in Paths |-> Absent]

RECURSIVE clear_files(_, _)
\* Lines 383-395: the loop over files_to_clear. The paths of a tree are
\* files of distinct subtrees, so the order of the set does not matter.
clear_files(dir, files_to_clear) ==
    IF files_to_clear = {} THEN dir
    ELSE LET rel_path == CHOOSE q \in files_to_clear : TRUE
         IN clear_files(clear_path(dir, rel_path), files_to_clear \ {rel_path})

RECURSIVE restore_tree(_, _, _, _)
RECURSIVE restore_entries(_, _, _, _, _)
\* Lines 408-417: the loop over tree.entries. Any exception (a missing
\* blob, write_bytes on a directory, mkdir on a file) leaves the loop: the
\* entries after it are skipped.
restore_entries(store, dir, entries, i, path) ==
    IF i > Len(entries) THEN dir
    ELSE LET mode == entries[i][1]
             file_path == Append(path, entries[i][2])
             obj_hash == entries[i][3]
         IN IF StartsWith100(mode)
            THEN IF ~HasObject(store, obj_hash) \/ is_dir(dir, file_path)
                 THEN dir
                 ELSE restore_entries(store,
                          [dir EXCEPT ![file_path] = File(load_object(store, obj_hash).content)],
                          entries, i + 1, path)
            ELSE IF StartsWith400(mode)
            THEN IF is_file(dir, file_path)
                 THEN dir
                 ELSE restore_entries(store,
                          restore_tree(store, [dir EXCEPT ![file_path] = Dir],
                                       obj_hash, file_path),
                          entries, i + 1, path)
            ELSE restore_entries(store, dir, entries, i + 1, path)

\* Repository.restore_tree: a tree that cannot be loaded restores nothing.
restore_tree(store, dir, tree_hash, path) ==
    IF ~HasObject(store, tree_hash) THEN dir
    ELSE restore_entries(store, dir,
                         Tree_from_content(load_object(store, tree_hash).content),
                         1, path)

\* ---------------------------------------------------------------------------
\* Refs and HEAD
\* ---------------------------------------------------------------------------
\* The bare name of the branch, without the "ref: " form.
HeadTextBare(branch) == << "", branch >>

\* The text of the HEAD file.
HeadText(branch) == << "ref: refs/heads/", branch >>

\* The default branch, whatever HEAD says.
get_current_branchDefault(head) == "main"

\* Repository.get_current_branch
get_current_branch(head) ==
    IF head = None THEN "main"
    ELSE IF head[1] = "ref: refs/heads/" THEN head[2]
    ELSE "HEAD"

\* Repository.get_branch_commit: None where the ref file does not exist.
get_branch_commit(heads, branch) ==
    IF branch \in DOMAIN heads THEN heads[branch] ELSE None

\* Repository.set_branch_commit
set_branch_commit(heads, branch, commit_hash) ==
    [b \in DOMAIN heads \cup {branch} |-> IF b = branch THEN commit_hash ELSE heads[b]]

\* ---------------------------------------------------------------------------
\* State
\* ---------------------------------------------------------------------------
VARIABLES
    gitdir,     \* whether the .gitpy directory exists
    HEAD,       \* the text of .gitpy/HEAD
    refs,       \* .gitpy/refs/heads: branch name -> tip commit digest
    index,      \* .gitpy/index: the staged paths with their blob digests, in order
    objects,    \* .gitpy/objects: digest -> stored bytes
    wd,         \* the working directory
    edits,      \* the user's edits so far
    scope,      \* the files the user works on, with the bytes written
    last,       \* the last command and how it ended
    codec       \* the bytes handed to deserialize, and what it made of them

vars == << gitdir, HEAD, refs, index, objects, wd, edits, scope, last, codec >>

Ran(op, outcome, branch, create) ==
    [op |-> op, outcome |-> outcome, branch |-> branch, create |-> create]

Init ==
    /\ gitdir = FALSE
    /\ HEAD = None
    /\ refs = [b \in {} |-> None]
    /\ index = << >>
    /\ objects = EmptyStore
    /\ wd = [p \in Paths |-> Absent]
    /\ edits = 0
    /\ scope \in Scopes
    /\ last = Ran("none", "", "", FALSE)
    /\ codec = Decoding(<< >>)

\* ---------------------------------------------------------------------------
\* The user's edits of the working directory
\* ---------------------------------------------------------------------------
\* The user makes p a file holding content, whatever was there: a directory
\* at p goes with everything in it, a file above p gives way to a directory.
UserWrite(p, content) ==
    /\ edits < MaxEdits
    /\ << p, content >> \in scope
    /\ wd[p] # File(content)
    /\ wd' = [q \in Paths |-> IF q = p THEN File(content)
                              ELSE IF q \in Ancestors(p) THEN Dir
                              ELSE IF q \in Descendants(p) THEN Absent
                              ELSE wd[q]]
    /\ edits' = edits + 1
    /\ last' = Ran("edit", "", "", FALSE)
    /\ UNCHANGED << gitdir, HEAD, refs, index, objects, scope, codec >>

\* The user removes a file, or a directory with everything in it.
UserRemove(p) ==
    /\ edits < MaxEdits
    /\ wd[p].kind # "absent"
    /\ wd' = [q \in Paths |-> IF q = p \/ q \in Descendants(p) THEN Absent ELSE wd[q]]
    /\ edits' = edits + 1
    /\ last' = Ran("edit", "", "", FALSE)
    /\ UNCHANGED << gitdir, HEAD, refs, index, objects, scope, codec >>

\* ---------------------------------------------------------------------------
\* init
\* ---------------------------------------------------------------------------
\* Repository.init
init ==
    /\ IF gitdir
       THEN UNCHANGED << gitdir, HEAD, refs, index, objects, last >>
       ELSE /\ gitdir' = TRUE
            /\ HEAD' = HeadText("main")
            /\ refs' = [b \in {} |-> None]
            /\ index' = << >>
            /\ objects' = EmptyStore
            /\ last' = Ran("init", "initialized", "", FALSE)
    /\ UNCHANGED << wd, edits, scope, codec >>

\* ---------------------------------------------------------------------------
\* add
\* ---------------------------------------------------------------------------
\* The index is written anew with the one entry, not merged.
add_fileReplacing(store, idx, dir, path) ==
    LET r == store_object(store, Blob(dir[path].data))
    IN [store |-> r.store, index |-> << << path, r.hash >> >>]

\* The index entry is set, and the blob is not stored.
add_fileIndexOnly(store, idx, dir, path) ==
    [store |-> store, index |-> DictSet(idx, path, hash(Blob(dir[path].data)))]

\* Repository.add_file, on the store and the index.
add_file(store, idx, dir, path) ==
    LET r == store_object(store, Blob(dir[path].data))
    IN [store |-> r.store, index |-> DictSet(idx, path, r.hash)]

RECURSIVE add_files(_, _, _, _, _)
\* Lines 213-221: the loop over the files of the directory, in the order
\* in which rglob yields them.
add_files(store, idx, dir, order, i) ==
    IF i > Len(order) THEN [store |-> store, index |-> idx]
    ELSE LET r == add_file(store, idx, dir, order[i])
         IN add_files(r.store, r.index, dir, order, i + 1)

\* The orders in which a directory scan may yield the files S.
Orders(S) ==
    { o \in [1..Cardinality(S) -> S] : \A i, j \in 1..Cardinality(S) : o[i] = o[j] => i = j }

\* Repository.add_path, after the check of main() that the repository exists.
add_path(path) ==
    /\ gitdir
    /\ IF ~exists(wd, path)
       THEN /\ last' = Ran("add", "error", "", FALSE)
            /\ UNCHANGED << index, objects >>
       ELSE IF is_file(wd, path)
       THEN LET r == add_file(objects, index, wd, path)
            IN /\ objects' = r.store
               /\ index' = r.index
               /\ last' = Ran("add", "added", "", FALSE)
       ELSE \E order \in Orders(FilesUnder(wd, path)) :
               LET r == add_files(objects, index, wd, order, 1)
               IN /\ objects' = r.store
                  /\ index' = r.index
                  /\ last' = Ran("add", "added", "", FALSE)
    /\ UNCHANGED << gitdir, HEAD, refs, wd, edits, scope, codec >>

\* ---------------------------------------------------------------------------
\* commit
\* ---------------------------------------------------------------------------
CommitObjects(store) == { h \in DOMAIN store : load_object(store, h).type = "commit" }

\* The tree that a stored commit names.
CommitTree(store, commit_hash) ==
    Commit_from_content(load_object(store, commit_hash).content).tree_hash

\* A parent list that is left empty.
ParentHashesEmpty(parent_commit) == << >>

\* Line 297
ParentHashes(parent_commit) ==
    IF parent_commit # None THEN << parent_commit >> ELSE << >>

\* The built tree compared with the tip commit's digest, not with its tree.
SameTreeAsParentCommitHash(store, parent_commit, tree_hash) ==
    /\ parent_commit # None
    /\ tree_hash = parent_commit

\* Lines 304-309: the commit is skipped when the tip's tree is the built tree.
SameTreeAsParent(store, parent_commit, tree_hash) ==
    /\ parent_commit # None
    /\ tree_hash = CommitTree(store, parent_commit)

\* Repository.commit, after the check of main() that the repository exists.
\* It ends in an error, reported by main(), when the tree builder raises
\* (before anything is written) or when the tip commit cannot be loaded
\* (line 305, after the tree has been stored).
commit(message, timestamp) ==
    /\ gitdir
    /\ LET tree == create_tree_from_index(objects, index)
           current_branch == get_current_branch(HEAD)
           parent_commit == get_branch_commit(refs, current_branch)
       IN IF tree.raised
          THEN /\ last' = Ran("commit", "error", "", FALSE)
               /\ UNCHANGED << refs, index, objects >>
          ELSE IF Len(index) = 0
          THEN /\ objects' = tree.store
               /\ last' = Ran("commit", "nothing staged", "", FALSE)
               /\ UNCHANGED << refs, index >>
          ELSE IF parent_commit # None /\ ~HasObject(tree.store, parent_commit)
          THEN /\ objects' = tree.store
               /\ last' = Ran("commit", "error", "", FALSE)
               /\ UNCHANGED << refs, index >>
          ELSE IF SameTreeAsParent(tree.store, parent_commit, tree.hash)
          THEN /\ objects' = tree.store
               /\ last' = Ran("commit", "same tree", "", FALSE)
               /\ UNCHANGED << refs, index >>
          ELSE LET commit_obj == Commit(tree.hash, ParentHashes(parent_commit),
                                        Author, message, timestamp)
                   r == store_object(tree.store, commit_obj)
               IN /\ Cardinality(CommitObjects(objects)) < MaxCommits
                  /\ objects' = r.store
                  /\ refs' = set_branch_commit(refs, current_branch, r.hash)
                  /\ index' = << >>
                  /\ last' = Ran("commit", "committed", "", FALSE)
    /\ UNCHANGED << gitdir, HEAD, wd, edits, scope, codec >>

\* ---------------------------------------------------------------------------
\* checkout
\* ---------------------------------------------------------------------------
\* Lines 347-357: the files of the previous branch's tip tree; nothing when
\* the branch has no tip or its commit cannot be loaded.
FilesToClear(store, previous_commit_hash) ==
    IF previous_commit_hash = None \/ ~HasObject(store, previous_commit_hash)
    THEN {}
    ELSE LET tree_hash == CommitTree(store, previous_commit_hash)
         IN IF tree_hash = None THEN {}
            ELSE get_files_from_tree_recursive(store, tree_hash, Root)

\* The target commit is loaded before anything is cleared.
restoring_working_directoryLoadFirst(store, heads, idx, dir, branch, files_to_clear) ==
    LET target_commit_hash == get_branch_commit(heads, branch)
    IN IF target_commit_hash = None
       THEN [wd |-> dir, index |-> idx, raised |-> FALSE]
       ELSE IF ~HasObject(store, target_commit_hash)
       THEN [wd |-> dir, index |-> idx, raised |-> TRUE]
       ELSE LET cleared == clear_files(dir, files_to_clear)
                tree_hash == CommitTree(store, target_commit_hash)
            IN [wd |-> IF tree_hash = None THEN cleared
                       ELSE restore_tree(store, cleared, tree_hash, Root),
                index |-> << >>,
                raised |-> FALSE]

\* Repository.restoring_working_directory: the working directory and the
\* index afterwards, and whether loading the target commit raised.
restoring_working_directory(store, heads, idx, dir, branch, files_to_clear) ==
    LET target_commit_hash == get_branch_commit(heads, branch)
    IN IF target_commit_hash = None
       THEN [wd |-> dir, index |-> idx, raised |-> FALSE]
       ELSE LET cleared == clear_files(dir, files_to_clear)
            IN IF ~HasObject(store, target_commit_hash)
               THEN [wd |-> cleared, index |-> idx, raised |-> TRUE]
               ELSE LET tree_hash == CommitTree(store, target_commit_hash)
                    IN [wd |-> IF tree_hash = None THEN cleared
                               ELSE restore_tree(store, cleared, tree_hash, Root),
                        index |-> << >>,
                        raised |-> FALSE]

\* A checkout that goes on to a branch without a ref when no branch is to
\* be created.
RejectsOnlyCreate(heads, branch, create_branch, previous_commit_hash) ==
    /\ branch \notin DOMAIN heads
    /\ create_branch
    /\ previous_commit_hash = None

\* A checkout that goes on when there is no commit to start the branch from.
RejectsWithoutCreate(heads, branch, create_branch, previous_commit_hash) ==
    /\ branch \notin DOMAIN heads
    /\ ~create_branch

\* Lines 359-373: the checkout is given up, before anything is written,
\* when the branch has no ref and either no branch is to be created or the
\* current branch has no commit to start it from.
Rejects(heads, branch, create_branch, previous_commit_hash) ==
    /\ branch \notin DOMAIN heads
    /\ ~create_branch \/ previous_commit_hash = None

\* Lines 360-363: a branch that is created starts at the previous tip.
HeadsAfterCreate(heads, branch, create_branch, previous_commit_hash) ==
    IF branch \notin DOMAIN heads /\ create_branch /\ previous_commit_hash # None
    THEN set_branch_commit(heads, branch, previous_commit_hash)
    ELSE heads

\* Repository.checkout, after the check of main() that the repository exists.
checkout(branch, create_branch) ==
    /\ gitdir
    /\ LET previous_branch == get_current_branch(HEAD)
           previous_commit_hash == get_branch_commit(refs, previous_branch)
           files_to_clear == FilesToClear(objects, previous_commit_hash)
           heads == HeadsAfterCreate(refs, branch, create_branch, previous_commit_hash)
           r == restoring_working_directory(objects, heads, index, wd, branch,
                                            files_to_clear)
       IN IF Rejects(refs, branch, create_branch, previous_commit_hash)
          THEN /\ last' = Ran("checkout",
                              IF create_branch THEN "no commit" ELSE "no branch",
                              branch, create_branch)
               /\ UNCHANGED << HEAD, refs, wd, index >>
          ELSE /\ refs' = heads
               /\ HEAD' = HeadText(branch)
               /\ wd' = r.wd
               /\ index' = r.index
               /\ last' = Ran("checkout",
                              IF r.raised THEN "error"
                              ELSE IF branch \in DOMAIN refs THEN "switched"
                              ELSE "created",
                              branch, create_branch)
    /\ UNCHANGED << gitdir, objects, edits, scope, codec >>

\* ---------------------------------------------------------------------------
\* Specification
\* ---------------------------------------------------------------------------
Next ==
    \/ \E p \in Paths, content \in Contents : UserWrite(p, content)
    \/ \E p \in Paths : UserRemove(p)
    \/ init
    \/ \E path \in Paths \cup {Root} : add_path(path)
    \/ \E message \in Messages, timestamp \in Timestamps : commit(message, timestamp)
    \/ \E branch \in Branches, create_branch \in BOOLEAN : checkout(branch, create_branch)

Spec == Init /\ [][Next]_vars

\* ---------------------------------------------------------------------------
\* Vocabulary of the properties
\* ---------------------------------------------------------------------------
\* The step is a run of the command op (every command records itself).
Runs(op) == last'.op = op /\ vars' # vars

CurrentBranch == get_current_branch(HEAD)
CurrentTip == get_branch_commit(refs, CurrentBranch)

\* The tree that commit builds from the staging index of the state.
BuiltTree == create_tree_from_index(objects, index)

\* The tip tree of a branch, None where the branch has no ref.
TipTree(store, heads, branch) ==
    IF branch \in DOMAIN heads THEN CommitTree(store, heads[branch]) ELSE None

\* The files of a branch's tip tree.
TipFiles(store, heads, branch) ==
    IF branch \in DOMAIN heads
    THEN get_files_from_tree_recursive(store, TipTree(store, heads, branch), Root)
    ELSE {}

RECURSIVE BlobAt(_, _, _)
\* The blob digest that the tree records for the file at path.
BlobAt(store, tree_hash, path) ==
    LET entries == Tree_from_content(load_object(store, tree_hash).content)
        entry == entries[CHOOSE i \in 1..Len(entries) : entries[i][2] = path[1]]
    IN IF Len(path) = 1 THEN entry[3] ELSE BlobAt(store, entry[3], Tail(path))

\* The working directory dir holds, at every file of the tree, the bytes of
\* the blob that the tree names.
HoldsTree(store, dir, tree_hash) ==
    \A p \in get_files_from_tree_recursive(store, tree_hash, Root) :
        /\ is_file(dir, p)
        /\ dir[p].data = load_object(store, BlobAt(store, tree_hash, p)).content

\* ---------------------------------------------------------------------------
\* C1..C10
\* ---------------------------------------------------------------------------
\* C1: a commit with an empty staging index changes no branch ref and adds
\* no object of any type to the object store.
C1_EmptyIndexCommitNoop ==
    [][(Runs("commit") /\ Len(index) = 0) => (refs' = refs /\ objects' = objects)]_vars

\* C2: with a non-empty index whose built tree has the digest of the tip's
\* tree, commit stores no commit object, adds no object, moves no ref, leaves
\* HEAD alone and does not clear the index.
C2_SameTreeCommitNoop ==
    [][(/\ last'.op = "commit"
        /\ Len(index) > 0
        /\ CurrentTip # None
        /\ ~BuiltTree.raised
        /\ BuiltTree.hash = CommitTree(objects, CurrentTip))
       => (/\ objects' = objects
           /\ refs' = refs
           /\ HEAD' = HEAD
           /\ index' = index)]_vars

C2_Witness ==
    /\ last.op = "commit"
    /\ last.outcome = "same tree"
    /\ Len(index) > 0
    /\ BuiltTree.hash = CommitTree(objects, CurrentTip)

\* C3: for every staging index, the tree built from it flattens to exactly
\* the set of the staged paths.
C3_BuildFlattenInverse ==
    /\ ~BuiltTree.raised
    /\ get_files_from_tree_recursive(BuiltTree.store, BuiltTree.hash, Root)
         = DictKeys(index)

\* C4: a commit that commit creates has at most one parent: none exactly
\* when the current branch had no ref, and otherwise the tip of the current
\* branch as it was before the commit.
C4_LinearHistory ==
    [][(Runs("commit") /\ refs' # refs)
       => LET new == refs'[CurrentBranch]
              parents == Commit_from_content(load_object(objects', new).content).parent_hash
          IN /\ Len(parents) <= 1
             /\ (CurrentBranch \notin DOMAIN refs) <=> (Len(parents) = 0)
             /\ CurrentBranch \in DOMAIN refs => parents = << refs[CurrentBranch] >>
             /\ \A h \in CommitObjects(objects') \ CommitObjects(objects) : h = new]_vars

C4_Witness ==
    /\ last.op = "commit"
    /\ last.outcome = "committed"
    /\ Len(Commit_from_content(load_object(objects, CurrentTip).content).parent_hash) = 1

\* C5: with a non-empty index, and no tip or a built tree other than the
\* tip's, commit stores a commit of the tree built from the index, points
\* the current branch at it and empties the index; the other refs and HEAD
\* stay as they are.
C5_CommitEffects ==
    [][(/\ Runs("commit")
        /\ Len(index) > 0
        /\ \/ CurrentTip = None
           \/ BuiltTree.hash # CommitTree(objects, CurrentTip))
       => (/\ CurrentBranch \in DOMAIN refs'
           /\ HasObject(objects', refs'[CurrentBranch])
           /\ load_object(objects', refs'[CurrentBranch]).type = "commit"
           /\ CommitTree(objects', refs'[CurrentBranch]) = BuiltTree.hash
           /\ index' = << >>
           /\ HEAD' = HEAD
           /\ DOMAIN refs' = DOMAIN refs \cup {CurrentBranch}
           /\ \A b \in DOMAIN refs \ {CurrentBranch} : refs'[b] = refs[b])]_vars

\* C6: checkout with create, of a branch without a ref from a branch with
\* tip C, leaves the new ref at C and HEAD naming the new branch; and a
\* commit moves no ref but that of the branch HEAD names.
C6_CheckoutCreatesBranch ==
    [][/\ \A prev \in Branches :
            (/\ Runs("checkout")
             /\ last'.create
             /\ last'.branch \notin DOMAIN refs
             /\ HEAD = HeadText(prev)
             /\ prev \in DOMAIN refs)
            => (/\ last'.branch \in DOMAIN refs'
                /\ refs'[last'.branch] = refs[prev]
                /\ HEAD' = HeadText(last'.branch))
       /\ Runs("commit")
            => \A b \in DOMAIN refs :
                  HEAD # HeadText(b) => (b \in DOMAIN refs' /\ refs'[b] = refs[b])]_vars

C6_Witness ==
    /\ last.op = "commit"
    /\ last.outcome = "committed"
    /\ HEAD = HeadText("feat")
    /\ "main" \in DOMAIN refs
    /\ refs["main"] # refs["feat"]

\* C7: a checkout of a branch without a ref, with no create or with no tip
\* to create it from, changes neither HEAD, the refs, the index, the object
\* store nor the working directory.
C7_RejectedCheckoutMutatesNothing ==
    [][(/\ last'.op = "checkout"
        /\ last'.branch \notin DOMAIN refs
        /\ ~last'.create \/ CurrentTip = None)
       => UNCHANGED << HEAD, refs, index, objects, wd >>]_vars

C7_Witness ==
    /\ last.op = "checkout"
    /\ last.outcome = "no commit"
    /\ Len(index) > 0
    /\ \E p \in Paths : is_file(wd, p)

\* C8: after the checkout of an existing branch B from branch A, every file
\* of B's tip tree holds the bytes of its blob, no file of A's tip tree that
\* is not in B's is left (a directory of B's tree may be at its path), and
\* the index is empty.
C8_CheckoutReconciles ==
    [][(Runs("checkout") /\ last'.branch \in DOMAIN refs)
       => (/\ HoldsTree(objects, wd', TipTree(objects, refs, last'.branch))
           /\ \A p \in TipFiles(objects, refs, CurrentBranch)
                         \ TipFiles(objects, refs, last'.branch) : ~is_file(wd', p)
           /\ index' = << >>)]_vars

\* C9: the checkout of the branch HEAD names, which has a tip, leaves HEAD
\* and the refs as they are and the working directory holding the tip tree,
\* and the same checkout once more changes nothing.
C9_CheckoutCurrentBranch ==
    [][(/\ Runs("checkout")
        /\ HEAD = HeadText(last'.branch)
        /\ last'.branch \in DOMAIN refs)
       => (/\ HEAD' = HEAD
           /\ refs' = refs
           /\ HoldsTree(objects, wd', TipTree(objects, refs, last'.branch))
           /\ LET again == restoring_working_directory(objects', refs', index', wd',
                               last'.branch, FilesToClear(objects', refs'[last'.branch]))
              IN again.wd = wd' /\ again.index = index')]_vars

\* Storing obj, and storing it once more.
PutTwice(obj) ==
    LET first == store_object(objects, obj)
        second == store_object(first.store, obj)
    IN /\ second.hash = first.hash
       /\ second.store = first.store
       /\ DOMAIN first.store = DOMAIN objects \cup {first.hash}
       /\ load_object(first.store, first.hash).type = obj.type
       /\ load_object(first.store, first.hash).content = obj.content
       /\ \A h \in DOMAIN objects : first.store[h] = objects[h]

\* C10: storing an object twice gives the same digest and one stored object
\* under it, holding the object; no content under any digest already in the
\* store changes.
C10_IdempotentPut ==
    /\ \A content \in Contents : PutTwice(Blob(content))
    /\ PutTwice(Tree(<< >>))
    /\ \A h \in DOMAIN objects : PutTwice(load_object(objects, h))

C10_Witness ==
    /\ last.op = "add"
    /\ \E i, j \in 1..Len(index) : i # j /\ index[i][2] = index[j][2]

\* ---------------------------------------------------------------------------
\* C11..C20
\* ---------------------------------------------------------------------------
\* The digests that the entries of a stored tree name.
TreeChildren(store, tree_hash) ==
    LET entries == Tree_from_content(load_object(store, tree_hash).content)
    IN { << entries[i][1], entries[i][3] >> : i \in 1..Len(entries) }

TreeObjects(store) == { h \in DOMAIN store : load_object(store, h).type = "tree" }

\* Every entry of every stored tree names a stored object of its kind: a
\* blob for a file entry, a tree for a directory entry.
MerkleClosed(store) ==
    \A t \in TreeObjects(store) : \A child \in TreeChildren(store, t) :
        /\ HasObject(store, child[2])
        /\ load_object(store, child[2]).type
             = (IF StartsWith100(child[1]) THEN "blob" ELSE "tree")

RECURSIVE SubtreesStoredFirst(_, _)
\* In the build of the tree of entries_dict from store, the store holds the
\* tree of every directory entry, at this level and below, at the moment the
\* tree that names it is handed to store_object.
SubtreesStoredFirst(store, entries_dict) ==
    LET built == TreeEntries(store, entries_dict, 1, << >>)
    IN /\ \A i \in 1..Len(built.entries) :
              StartsWith400(built.entries[i][1])
                  => HasObject(built.store, built.entries[i][3])
       /\ \A i \in 1..Len(entries_dict) :
              ~IsStr(entries_dict[i][2])
                  => SubtreesStoredFirst(
                         TreeEntries(store, SubSeq(entries_dict, 1, i - 1), 1, << >>).store,
                         entries_dict[i][2][2])

\* The dictionary that create_tree_from_index hands to create_tree_recursive.
RootEntries(idx) ==
    LET split == SplitIndex(idx, 1, << >>, << >>)
    IN MergeDirs(split.files, split.dirs, 1)

\* C11: every child digest of every stored tree is in the object store (a
\* blob for a file entry, a tree for a directory entry), and in the build of
\* a tree from the index every subtree is in the store before the tree that
\* names it is stored.
C11_MerkleClosure ==
    /\ MerkleClosed(objects)
    /\ (Len(index) > 0 /\ ~BuiltTree.raised)
          => /\ SubtreesStoredFirst(objects, RootEntries(index))
             /\ MerkleClosed(BuiltTree.store)

C11_Witness ==
    /\ last.op = "commit"
    /\ last.outcome = "committed"
    /\ \E t \in TreeObjects(objects) : \E child \in TreeChildren(objects, t) :
           /\ StartsWith400(child[1])
           /\ \E sub \in TreeChildren(objects, child[2]) : StartsWith400(sub[1])

\* C12: a step of init, add, commit or checkout, however it ends, leaves
\* every digest of the object store in the store, with the type and the
\* payload it had.
C12_StoreOnlyGrows ==
    [][\A h \in DOMAIN objects :
          /\ HasObject(objects', h)
          /\ load_object(objects', h).type = load_object(objects, h).type
          /\ load_object(objects', h).content = load_object(objects, h).content]_vars

C12_Witness ==
    /\ last.op = "checkout"
    /\ last.outcome = "switched"
    /\ Cardinality(CommitObjects(objects)) = MaxCommits
    /\ \E h \in DOMAIN objects : load_object(objects, h).type = "blob"
    /\ \E h \in CommitObjects(objects) : \A b \in DOMAIN refs : refs[b] # h

\* HEAD holds the symbolic name of a branch.
SymbolicHead(head) ==
    /\ head # None
    /\ head[1] = "ref: refs/heads/"
    /\ head[2] \in Branches
    /\ get_current_branch(head) = head[2]

\* C13: every add and every commit, however it ends, leaves HEAD as it was,
\* and from init on HEAD holds the symbolic name of a branch, never a raw
\* commit digest.
C13_HeadOnlyByCheckout ==
    [][/\ (Runs("add") \/ Runs("commit")) => HEAD' = HEAD
       /\ HEAD' # HEAD => Runs("checkout") \/ Runs("init")
       /\ gitdir' => SymbolicHead(HEAD')]_vars

C13_Witness ==
    /\ last.op = "add"
    /\ last.outcome = "added"
    /\ HEAD[2] = "feat"
    /\ Len(index) > 0
    /\ Cardinality(CommitObjects(objects)) = MaxCommits

\* What staging path does to the index and the store: nothing where the
\* path does not exist; otherwise every staged file (the path itself, or the
\* files below the directory) gets the digest of the blob of its bytes, the
\* blob is in the store, and every other entry stays.
Staged(path) ==
    IF ~exists(wd, path)
    THEN /\ last'.outcome = "error"
         /\ index' = index
         /\ objects' = objects
    ELSE LET files == IF is_file(wd, path) THEN { path } ELSE FilesUnder(wd, path)
         IN /\ last'.outcome = "added"
            /\ DictKeys(index') = DictKeys(index) \cup files
            /\ \A p \in files :
                   /\ DictGet(index', p) = hash(Blob(wd[p].data))
                   /\ HasObject(objects', DictGet(index', p))
                   /\ load_object(objects', DictGet(index', p)) = Blob(wd[p].data)
            /\ \A p \in DictKeys(index) \ files : DictGet(index', p) = DictGet(index, p)

\* C14: an add of a file or a directory sets the index entry of every staged
\* file to the digest of the blob of its current bytes, with the blob in the
\* store, and leaves the other entries, the refs and HEAD as they were; an
\* add of a path that does not exist fails and leaves the index as it was.
C14_StagingMerges ==
    [][last'.op = "add"
       => /\ \E path \in Paths \cup {Root} : Staged(path)
          /\ last'.outcome = "error" => index' = index
          /\ refs' = refs
          /\ HEAD' = HEAD]_vars

C14_Witness ==
    /\ last.op = "add"
    /\ last.outcome = "added"
    /\ Len(index) >= 2
    /\ \E i \in 1..Len(index) : ~is_file(wd, index[i][1])
    /\ \E i \in 1..Len(index) :
           is_file(wd, index[i][1]) /\ index[i][2] = hash(Blob(wd[index[i][1]].data))

\* C19: from init on, the branch HEAD names has a ref as soon as any branch
\* has one; HEAD names a branch without a ref only while no commit has ever
\* been made.
C19_HeadNeverDangles ==
    gitdir => \/ CurrentBranch \in DOMAIN refs
              \/ /\ DOMAIN refs = {}
                 /\ CommitObjects(objects) = {}

C19_Witness ==
    /\ last.op = "checkout"
    /\ last.outcome = "created"
    /\ CurrentBranch = "feat"
    /\ "main" \in DOMAIN refs
    /\ refs["feat"] = refs["main"]

\* The step is a checkout that went through to its end.
SuccessfulCheckout ==
    /\ Runs("checkout")
    /\ last'.outcome \in { "switched", "created" }

\* The files of the working directory that neither the tip tree of the
\* branch HEAD names nor the tip tree of the branch checked out records.
Untracked ==
    { p \in Paths : /\ is_file(wd, p)
                    /\ p \notin TipFiles(objects, refs, CurrentBranch)
                    /\ p \notin TipFiles(objects, refs', last'.branch) }

\* C20, as claimed: a successful checkout leaves every untracked file in
\* place with its bytes, also below a directory that is where the previous
\* tip tree has a file.
C20_CheckoutKeepsUntracked ==
    [][SuccessfulCheckout
       => \A p \in Untracked : is_file(wd', p) /\ wd'[p] = wd[p]]_vars

\* C20, amended: a successful checkout leaves every untracked file in place
\* with its bytes, unless it lies below a directory that is where the
\* previous tip tree has a file.
C20_CheckoutKeepsUntrackedOutside ==
    [][SuccessfulCheckout
       => \A p \in Untracked :
              (\A q \in Ancestors(p) : q \notin TipFiles(objects, refs, CurrentBranch))
                  => is_file(wd', p) /\ wd'[p] = wd[p]]_vars

C20_Witness ==
    /\ last.op = "checkout"
    /\ last.outcome = "switched"
    /\ \E p \in Paths :
           /\ is_file(wd, p)
           /\ \A b \in DOMAIN refs : p \notin TipFiles(objects, refs, b)
    /\ \E p \in Paths : p \in TipFiles(objects, refs, CurrentBranch) /\ is_file(wd, p)

\* ---------------------------------------------------------------------------
\* A repository that loses object files
\* ---------------------------------------------------------------------------
\* What the user of a damaged repository works on: two files of the root,
\* with different bytes.
LossScopes == { { << <<"a">>, <<1>> >>, << <<"d">>, <<2>> >> } }

\* The working directory holds the user's files before the repository is
\* made.
InitLoss ==
    /\ gitdir = FALSE
    /\ HEAD = None
    /\ refs = [b \in {} |-> None]
    /\ index = << >>
    /\ objects = EmptyStore
    /\ scope \in LossScopes
    /\ wd = [p \in Paths |-> IF \E f \in scope : f[1] = p
                             THEN File((CHOOSE f \in scope : f[1] = p)[2])
                             ELSE Absent]
    /\ edits = 0
    /\ last = Ran("none", "", "", FALSE)
    /\ codec = Decoding(<< >>)

\* The file of one object is removed from .gitpy/objects (by the user, or by
\* a fault of the disk): load_object of its digest raises from then on. These
\* removals are the only edits of the user of a damaged repository.
LoseObject(obj_hash) ==
    /\ gitdir
    /\ edits < MaxLosses
    /\ HasObject(objects, obj_hash)
    /\ objects' = [h \in DOMAIN objects \ {obj_hash} |-> objects[h]]
    /\ edits' = edits + 1
    /\ last' = Ran("edit", "", "", FALSE)
    /\ UNCHANGED << gitdir, HEAD, refs, index, wd, scope, codec >>

NextLoss ==
    \/ init
    \/ \E path \in Paths \cup {Root} : add_path(path)
    \/ \E message \in Messages, timestamp \in Timestamps : commit(message, timestamp)
    \/ \E branch \in Branches, create_branch \in BOOLEAN : checkout(branch, create_branch)
    \/ \E obj_hash \in DOMAIN objects : LoseObject(obj_hash)

SpecLoss == InitLoss /\ [][NextLoss]_vars

RECURSIVE WalkedTrees(_, _, _)
\* The trees that a walk from tree_hash reaches when it passes over what it
\* cannot load, each with the path of its directory.
WalkedTrees(store, tree_hash, prefix) ==
    IF ~HasObject(store, tree_hash) THEN {}
    ELSE LET entries == Tree_from_content(load_object(store, tree_hash).content)
         IN { << tree_hash, prefix >> }
            \cup UNION { IF StartsWith400(entries[i][1])
                         THEN WalkedTrees(store, entries[i][3], Append(prefix, entries[i][2]))
                         ELSE {} : i \in 1..Len(entries) }

\* The file entries of a stored tree that have, in the same tree, another
\* entry whose blob or subtree is missing from the store: each with its path
\* and the digest of its blob.
SiblingsOfMissing(store, tree_hash, prefix) ==
    LET entries == Tree_from_content(load_object(store, tree_hash).content)
    IN { << Append(prefix, entries[j][2]), entries[j][3] >> :
           j \in { j \in 1..Len(entries) :
                     /\ StartsWith100(entries[j][1])
                     /\ \E i \in 1..Len(entries) :
                            i # j /\ ~HasObject(store, entries[i][3]) } }

\* The tree of the commit, where the commit can be loaded.
LoadableTree(store, commit_hash) ==
    IF commit_hash # None /\ HasObject(store, commit_hash)
    THEN CommitTree(store, commit_hash)
    ELSE None

\* C15: in a checkout, an entry whose blob or subtree is missing from the
\* store stops neither walk for its siblings: flatten collects the path of
\* every file entry beside it, and restore writes every file entry beside it
\* whose blob is in the store, also those listed after it.
C15_WalkErrorsAreLocal ==
    [][(Runs("checkout") /\ last'.outcome \in { "switched", "created" })
       => /\ \A walked \in WalkedTrees(objects, LoadableTree(objects, CurrentTip), Root) :
                 \A sibling \in SiblingsOfMissing(objects, walked[1], walked[2]) :
                     sibling[1] \in FilesToClear(objects, CurrentTip)
          /\ \A walked \in WalkedTrees(objects,
                                       LoadableTree(objects, refs'[last'.branch]), Root) :
                 \A sibling \in SiblingsOfMissing(objects, walked[1], walked[2]) :
                     HasObject(objects, sibling[2])
                         => /\ is_file(wd', sibling[1])
                            /\ wd'[sibling[1]].data
                                 = load_object(objects, sibling[2]).content]_vars

\* The object that a digest names (the digest is taken to be collision-free).
NamedObject(obj_hash) == GitObject(obj_hash[2], obj_hash[4])

RECURSIVE NamedFiles(_, _)
\* The files of the tree that a digest names, whatever the store holds.
NamedFiles(tree_hash, prefix) ==
    LET entries == Tree_from_content(NamedObject(tree_hash).content)
    IN UNION { IF StartsWith100(entries[i][1])
               THEN { Append(prefix, entries[i][2]) }
               ELSE NamedFiles(entries[i][3], Append(prefix, entries[i][2])) :
               i \in 1..Len(entries) }

\* The files of the snapshot of a commit digest, none for no commit.
SnapshotFiles(commit_hash) ==
    IF commit_hash = None THEN {}
    ELSE NamedFiles(Commit_from_content(NamedObject(commit_hash).content).tree_hash, Root)

\* The step is the checkout of a branch whose ref names a commit that is
\* not in the store.
CheckoutOfMissingCommit ==
    /\ last'.op = "checkout"
    /\ last'.branch \in DOMAIN refs
    /\ ~HasObject(objects, refs[last'.branch])

\* C16, as claimed: the checkout of a branch whose commit is missing ends in
\* a reported error with HEAD naming that branch, every file of the previous
\* snapshot removed from the working directory and the index as it was.
C16_MissingTargetCommit ==
    [][CheckoutOfMissingCommit
       => /\ HEAD' = HeadText(last'.branch)
          /\ last'.outcome = "error"
          /\ \A p \in SnapshotFiles(CurrentTip) : ~is_file(wd', p)
          /\ index' = index]_vars

\* C16, amended: the checkout of a branch whose commit is missing ends in a
\* reported error with HEAD naming that branch, every file that the resolve
\* phase read from the previous tip in the store removed from the working
\* directory (none when that tip is itself missing), the other files and the
\* index as they were, and the store and the refs untouched.
C16_MissingTargetCommitReadable ==
    [][CheckoutOfMissingCommit
       => /\ HEAD' = HeadText(last'.branch)
          /\ last'.outcome = "error"
          /\ \A p \in FilesToClear(objects, CurrentTip) : ~is_file(wd', p)
          /\ \A p \in Paths \ FilesToClear(objects, CurrentTip) : wd'[p] = wd[p]
          /\ HasObject(objects, CurrentTip)
                => FilesToClear(objects, CurrentTip) \subseteq SnapshotFiles(CurrentTip)
          /\ index' = index
          /\ refs' = refs
          /\ objects' = objects]_vars

C16_Witness ==
    /\ last.op = "checkout"
    /\ last.outcome = "error"
    /\ HEAD = HeadText("feat")
    /\ ~HasObject(objects, refs["feat"])
    /\ HasObject(objects, refs["main"])
    /\ SnapshotFiles(refs["main"]) # {}
    /\ \A p \in Paths : ~is_file(wd, p)
    /\ Len(index) > 0

\* The staged paths are all files of the root.
RootFilesOnly(idx) == \A i \in 1..Len(idx) : Len(idx[i][1]) = 1

\* The indexes with the entries of idx in another order.
Reordered(idx) ==
    { [i \in 1..Len(idx) |-> idx[o[i]]] : o \in Orders(1..Len(idx)) } \ { idx }

\* C17: tree entries go out in insertion order: an index of two or more
\* files of the root and the same index staged in another order (the same
\* paths with the same digests) get root trees of different digests.
C17_TreeDigestOrderSensitive ==
    (Len(index) >= 2 /\ RootFilesOnly(index))
        => \A other \in Reordered(index) :
               /\ { other[i] : i \in 1..Len(other) } = { index[i] : i \in 1..Len(index) }
               /\ ~create_tree_from_index(objects, other).raised
               /\ create_tree_from_index(objects, other).hash # BuiltTree.hash

C17_Witness ==
    /\ last.op = "add"
    /\ Len(index) = 2
    /\ RootFilesOnly(index)
    /\ index[1][1] = <<"d">>
    /\ Reordered(index) # {}

\* ---------------------------------------------------------------------------
\* The decoder on arbitrary bytes
\* ---------------------------------------------------------------------------
\* Some byte string has been decompressed and is to be decoded.
InitCodec ==
    /\ gitdir = FALSE
    /\ HEAD = None
    /\ refs = [b \in {} |-> None]
    /\ index = << >>
    /\ objects = EmptyStore
    /\ wd = [p \in Paths |-> Absent]
    /\ edits = 0
    /\ scope = {}
    /\ last = Ran("none", "", "", FALSE)
    /\ codec \in { Decoding(data) : data \in ByteStrings }

\* GitObject.deserialize, after zlib.decompress.
deserialize_step ==
    /\ ~codec.done
    /\ codec' = [data |-> codec.data, done |-> TRUE, obj |-> deserialize_bytes(codec.data)]
    /\ UNCHANGED << gitdir, HEAD, refs, index, objects, wd, edits, scope, last >>

NextCodec == deserialize_step

SpecCodec == InitCodec /\ [][NextCodec]_vars

\* C18: a byte string without a null byte is never decoded to an object:
\* deserialize fails on it.
C18_DecodeRejectsMalformed ==
    (codec.done /\ \A i \in 1..Len(codec.data) : codec.data[i] # NullByte)
        => codec.obj.raised

====
